---- MODULE Spec2Model ----
(***************************************************************************)
(* A model of the candlestick crate's CandleStream (src/src/candle_stream.rs) *)
(* and of the part of the CandleStick trait (src/src/candle_stick.rs) its    *)
(* pattern queries call.                                                     *)
(*                                                                           *)
(* Prices.  The code works on f64 prices.  The model keeps a price as an     *)
(* integer number of ticks of 0.0001 (the body epsilon of CandleStick::body),*)
(* and draws the prices of the pattern grid from multiples of UNIT = 10000   *)
(* ticks (1.0).  On such prices every operation the stream performs is exact *)
(* in f64 as well: comparisons, the sum and halving of midpoint (sums of     *)
(* multiples of 1.0 halve to multiples of 0.5), and the doji test            *)
(* body / range < 0.1, whose quotient is correctly rounded and therefore     *)
(* below the literal 0.1 exactly when 10 * body < range (0.0001 / 0.001      *)
(* evaluates to the literal 0.1).  The bars of the documented examples have  *)
(* prices with one decimal; none of their comparisons is within a rounding   *)
(* error of equality, so the integer arithmetic decides them as f64 does.    *)
(*                                                                           *)
(* References.  The stream stores `&'s T`; a bar in the model is the value   *)
(* of the candle the reference points to.  The volume is carried and never   *)
(* read by the stream.                                                       *)
(***************************************************************************)
EXTENDS Integers, Sequences, FiniteSets, TLC

VARIABLES series, idx, hist, ref, last

vars == <<series, idx, hist, ref, last>>

(***************************************************************************)
(* Program constants                                                        *)
(***************************************************************************)
SERIES_SIZE == 5

\* usize is the target's pointer width; 16 bits is the narrowest Rust has
\* (the crate is no_std).  The only place the width shows is `n + 1` in prev,
\* which overflows at usize::MAX whatever the width.
USIZE_BITS == 16

USIZE_MAX == 2 ^ USIZE_BITS - 1

\* Ticks (0.0001) in the price 1.0.
UNIT == 10000

\* 0.0001, the epsilon of CandleStick::body, in ticks.
BODY_EPS == 1

\* 0.001, the epsilon of CandleStick::range, in ticks.
RANGE_EPS == 10

\* doji_body_ratio is 0.1 = 1 / DOJI_BODY_RATIO_INV.
DOJI_BODY_RATIO_INV == 10

(***************************************************************************)
(* Bounds of the model                                                      *)
(***************************************************************************)
\* Pushes explored by Spec: two full wraparounds of the five slots and one more.
MaxPushes == 11

\* Arguments of prev explored past SERIES_SIZE (besides those next to usize::MAX).
ExtraArgs == 2

\* Price levels of the open and the close of a bar of the pattern grid.
MaxLevel == 4

\* Length, in units of 1.0, of the long shadow of a bar of the pattern grid.
LongShadow == 11

\* Price levels of the open and the close of a bar of the trend grid: three
\* bars that each open and close above the close of the one before need six.
RunLevels == 6

\* The bars the deepest pattern query reads: get(), prev(1) and prev(2).  SpecPat
\* pushes this many bars of the pattern grid.
PATTERN_BARS == 3

(***************************************************************************)
(* Option<T>, and the outcome of a call that may panic                      *)
(***************************************************************************)
None == [tag |-> "None"]

Some(x) == [tag |-> "Some", val |-> x]

Panic == [tag |-> "Panic"]

\* What a call whose usize arithmetic overflows does: it panics in a build with
\* overflow checks and returns `wraps`, computed on the wrapped value, in a build
\* without.
Overflow(wraps) == [tag |-> "Overflow", wraps |-> wraps]

\* The values a call described by r can return, over the builds.
Outcomes(r) == IF r.tag = "Overflow" THEN {Panic, r.wraps} ELSE {r}

is_some(o) == o.tag = "Some"

Max(a, b) == IF a >= b THEN a ELSE b

Min(a, b) == IF a <= b THEN a ELSE b

Abs(a) == IF a >= 0 THEN a ELSE 0 - a

(***************************************************************************)
(* CandleStick for (f64, f64, f64, f64, f64)                                *)
(***************************************************************************)
Bar(o, h, l, c) == [open |-> o, high |-> h, low |-> l, close |-> c, volume |-> 0]

open(b) == b.open

high(b) == b.high

low(b) == b.low

close(b) == b.close

range(b) == Max(high(b) - low(b), RANGE_EPS)

body(b) == Max(Abs(open(b) - close(b)), BODY_EPS)

\* Mutant: a bar with open = close counted as bullish.
is_bullish_or_flat(b) == open(b) <= close(b)

is_bullish(b) == open(b) < close(b)

is_bearish(b) == open(b) > close(b)

\* body_range_ratio() < doji_body_ratio(), i.e. body / range < 1 / 10 with
\* range > 0, cleared of the division.
is_doji(b) == body(b) * DOJI_BODY_RATIO_INV < range(b)

\* crate::utils::midpoint; exact on sums of multiples of UNIT.
midpoint(a, b) == (a + b) \div 2

(***************************************************************************)
(* The bars the caller owns                                                 *)
(***************************************************************************)
\* The i-th of an ascending run of pairwise distinct bullish candles, as the
\* candle1 .. candle6 of the stream's tests.
Candle(i) ==
    Bar((95 + 5 * i) * UNIT, (101 + 5 * i) * UNIT, (94 + 5 * i) * UNIT, (99 + 5 * i) * UNIT)

\* What the caller pushes under Spec: the next new candle, or the first again
\* (tests::test_get pushes candle1 a second time).
Offered == {Candle(Len(hist) + 1), Candle(1)}

Levels == 1 .. MaxLevel

Price(lv) == (LongShadow + lv) * UNIT

\* A grid bar with a long upper shadow and no lower one.
WickBar(o, c) == Bar(Price(o), Price(Max(o, c)) + LongShadow * UNIT, Price(Min(o, c)), Price(c))

\* A grid bar with a long lower shadow and no upper one.
TailBar(o, c) == Bar(Price(o), Price(Max(o, c)), Price(Min(o, c)) - LongShadow * UNIT, Price(c))

\* A bar with no shadows: never a doji.
PlainBar(o, c) == Bar(Price(o), Price(Max(o, c)), Price(Min(o, c)), Price(c))

\* The opens and closes whose bar is a doji when it has a long shadow: the
\* bodies of at most one level.
SmallBodies == {oc \in Levels \X Levels : is_doji(TailBar(oc[1], oc[2]))}

WickBars == {WickBar(o, c) : o \in Levels, c \in Levels}

\* Every open and close with the long upper shadow, and the small bodies with
\* the long lower shadow (dojis as well) and with no shadow (the same bodies,
\* not dojis).
GridBars ==
    WickBars
        \cup {b \in {TailBar(o, c) : o \in Levels, c \in Levels} : is_doji(b)}
        \cup {PlainBar(oc[1], oc[2]) : oc \in SmallBodies}

\* The bars of the documented Bullish Engulfing example:
\* (101, 102, 99.5, 100.5) then (99, 103, 98.5, 102.5).
DocEngulfPrev == Bar(1010000, 1020000, 995000, 1005000)

DocEngulfCur == Bar(990000, 1030000, 985000, 1025000)

\* The bars of the documented Dark Cloud Cover example:
\* (100, 105, 99.5, 104.5) then (105.5, 106, 102, 101.5).
DocDarkCloudPrev == Bar(1000000, 1050000, 995000, 1045000)

DocDarkCloudCur == Bar(1055000, 1060000, 1020000, 1015000)

\* The bars of the documented Morning Star example:
\* (52, 52.5, 48, 48.5), (48.2, 48.9, 47.5, 48.3), (48.7, 51.5, 48.5, 51.2).
DocMorningStarP2 == Bar(520000, 525000, 480000, 485000)

DocMorningStarP1 == Bar(482000, 489000, 475000, 483000)

DocMorningStarCur == Bar(487000, 515000, 485000, 512000)

DocBars ==
    {DocEngulfPrev, DocEngulfCur, DocDarkCloudPrev, DocDarkCloudCur,
     DocMorningStarP2, DocMorningStarP1, DocMorningStarCur}

PatBars == GridBars \cup DocBars

\* The bars of the documented Three White Soldiers example:
\* (48, 50.5, 47.8, 50.2), (50.3, 52.7, 50.1, 52.4), (52.5, 54.8, 52.3, 54.5).
DocSoldiersP2 == Bar(480000, 505000, 478000, 502000)

DocSoldiersP1 == Bar(503000, 527000, 501000, 524000)

DocSoldiersCur == Bar(525000, 548000, 523000, 545000)

\* The bars of the documented Three Black Crows example:
\* (54, 54.5, 51.8, 52.2), (52, 52.3, 49.7, 50.4), (50.2, 50.5, 47.9, 48.3).
DocCrowsP2 == Bar(540000, 545000, 518000, 522000)

DocCrowsP1 == Bar(520000, 523000, 497000, 504000)

DocCrowsCur == Bar(502000, 505000, 479000, 483000)

DocRunBars ==
    {DocSoldiersP2, DocSoldiersP1, DocSoldiersCur, DocCrowsP2, DocCrowsP1, DocCrowsCur}

\* The trend grid: every open and close on RunLevels levels, with no shadows.
RunBars == {PlainBar(o, c) : o \in 1 .. RunLevels, c \in 1 .. RunLevels} \cup DocRunBars

(***************************************************************************)
(* CandleStream: lookups                                                    *)
(***************************************************************************)
Slots == 0 .. SERIES_SIZE - 1

\* Mutant: the guard one too strict, `n >= SERIES_SIZE`.
nth_index_rejects_capacity(n) ==
    IF n >= SERIES_SIZE THEN None ELSE Some((idx + SERIES_SIZE - n) % SERIES_SIZE)

\* Mutant: the slot one past the one asked for.
nth_index_off_by_one(n) ==
    IF n > SERIES_SIZE THEN None ELSE Some((idx + SERIES_SIZE - n + 1) % SERIES_SIZE)

nth_index(n) == IF n > SERIES_SIZE THEN None ELSE Some((idx + SERIES_SIZE - n) % SERIES_SIZE)

at(i) == IF i < SERIES_SIZE THEN series[i] ELSE None

\* self.at(self.nth_index(n)?)
at_nth(n) == IF is_some(nth_index(n)) THEN at(nth_index(n).val) ELSE None

\* Mutant: the current bar read at the write position.
get_at_cursor == at_nth(0)

get == at_nth(1)

\* Mutant: prev(n) as "n + 1 bars before the current one".
prev_one_further(n) == at_nth(n + 2)

\* Mutant: the `+ 1` forgotten.
prev_without_increment(n) == at_nth(n)

\* `n + 1` is a usize addition: at n = usize::MAX it overflows, and wraps to 0
\* in a build without overflow checks.
prev(n) ==
    IF n + 1 > USIZE_MAX
    THEN Overflow(at_nth((n + 1) % (USIZE_MAX + 1)))
    ELSE at_nth(n + 1)

(***************************************************************************)
(* CandleStream: pattern queries.  Each is                                  *)
(*   self.get().zip(self.prev(1))[.zip(self.prev(2))].is_some_and(closure)  *)
(* and the closure is the operator of the same name ending in _of.          *)
(***************************************************************************)
\* Mutant: a two-bar query that wants a third bar in the window.
zip2_needs_three == is_some(get) /\ is_some(prev(1)) /\ is_some(prev(2))

\* get().zip(prev(1)) is Some
zip2 == is_some(get) /\ is_some(prev(1))

\* get().zip(prev(1)).zip(prev(2)) is Some
zip3 == is_some(get) /\ is_some(prev(1)) /\ is_some(prev(2))

\* Mutant: a doji that touches the previous low accepted.
bullish_doji_star_touching(c, p) == is_bearish(p) /\ is_doji(c) /\ high(c) <= low(p)

bullish_doji_star_of(c, p) == is_bearish(p) /\ is_doji(c) /\ high(c) < low(p)

is_bullish_doji_star == zip2 /\ bullish_doji_star_of(get.val, prev(1).val)

\* Mutant: the body of the bullish query under the bearish name.
bearish_doji_star_gap_below(c, p) == is_bearish(p) /\ is_doji(c) /\ high(c) < low(p)

bearish_doji_star_of(c, p) == is_bullish(p) /\ is_doji(c) /\ low(c) > high(p)

is_bearish_doji_star == zip2 /\ bearish_doji_star_of(get.val, prev(1).val)

\* Mutant: the directions of the two bars not tested.
bullish_engulfing_no_direction(c, p) == open(c) < close(p) /\ close(c) > open(p)

\* Mutant: the comparisons of the bodies made non-strict.
bullish_engulfing_non_strict(c, p) ==
    is_bearish(p) /\ is_bullish(c) /\ open(c) <= close(p) /\ close(c) >= open(p)

bullish_engulfing_of(c, p) ==
    is_bearish(p) /\ is_bullish(c) /\ open(c) < close(p) /\ close(c) > open(p)

is_bullish_engulfing == zip2 /\ bullish_engulfing_of(get.val, prev(1).val)

bearish_engulfing_of(c, p) ==
    is_bullish(p) /\ is_bearish(c) /\ open(c) > close(p) /\ close(c) < open(p)

is_bearish_engulfing == zip2 /\ bearish_engulfing_of(get.val, prev(1).val)

\* Mutant: the containment of the body made non-strict.
bullish_harami_non_strict(c, p) ==
    is_bearish(p) /\ is_bullish(c) /\ open(c) >= close(p) /\ close(c) <= open(p)

bullish_harami_of(c, p) ==
    is_bearish(p) /\ is_bullish(c) /\ open(c) > close(p) /\ close(c) < open(p)

is_bullish_harami == zip2 /\ bullish_harami_of(get.val, prev(1).val)

\* Mutant: the directions of the two bars not tested.
bearish_harami_no_direction(c, p) == open(c) < close(p) /\ close(c) > open(p)

bearish_harami_of(c, p) ==
    is_bullish(p) /\ is_bearish(c) /\ open(c) < close(p) /\ close(c) > open(p)

is_bearish_harami == zip2 /\ bearish_harami_of(get.val, prev(1).val)

\* Mutant: the directions of the two bars not tested.
dark_cloud_cover_no_direction(c, p) ==
    open(c) > close(p) /\ close(c) < midpoint(open(p), close(p))

\* Mutant: a close at the midpoint accepted.
dark_cloud_cover_at_midpoint(c, p) ==
    is_bearish(c) /\ is_bullish(p) /\ open(c) > close(p)
        /\ close(c) <= midpoint(open(p), close(p))

dark_cloud_cover_of(c, p) ==
    is_bearish(c) /\ is_bullish(p) /\ open(c) > close(p)
        /\ close(c) < midpoint(open(p), close(p))

is_dark_cloud_cover == zip2 /\ dark_cloud_cover_of(get.val, prev(1).val)

evening_star_of(c, p1, p2) ==
    is_bullish(p2) /\ (is_doji(p1) \/ open(p1) < close(p1)) /\ is_bearish(c)
        /\ close(c) < midpoint(open(p2), close(p2))

is_evening_star == zip3 /\ evening_star_of(get.val, prev(1).val, prev(2).val)

\* Mutant: `|` in the place of the `&`.
evening_star_doji_with_or(c, p1, p2) ==
    is_bullish(p2) /\ (is_doji(p1) \/ is_bearish(c))
        /\ close(c) < midpoint(open(p2), close(p2))

\* p2.is_bullish() && p1.is_doji() & c.is_bearish() && ...: the `&` evaluates
\* both of its operands, which have no effect, and is their conjunction.
evening_star_doji_of(c, p1, p2) ==
    is_bullish(p2) /\ (is_doji(p1) /\ is_bearish(c))
        /\ close(c) < midpoint(open(p2), close(p2))

is_evening_star_doji == zip3 /\ evening_star_doji_of(get.val, prev(1).val, prev(2).val)

\* Mutant: no test of the middle bar.
morning_star_any_middle(c, p1, p2) ==
    is_bearish(p2) /\ is_bullish(c) /\ close(c) > midpoint(open(p2), close(p2))

morning_star_of(c, p1, p2) ==
    is_bearish(p2) /\ (is_doji(p1) \/ open(p1) < close(p1)) /\ is_bullish(c)
        /\ close(c) > midpoint(open(p2), close(p2))

is_morning_star == zip3 /\ morning_star_of(get.val, prev(1).val, prev(2).val)

morning_star_doji_of(c, p1, p2) ==
    is_bearish(p2) /\ is_doji(p1) /\ is_bullish(c)
        /\ close(c) > midpoint(open(p2), close(p2))

is_morning_star_doji == zip3 /\ morning_star_doji_of(get.val, prev(1).val, prev(2).val)

\* Mutant: the current bar's open left free.
three_white_soldiers_open_free(c, p1, p2) ==
    is_bullish(p2) /\ is_bullish(p1) /\ open(p1) > close(p2) /\ close(p1) > close(p2)
        /\ is_bullish(c) /\ close(c) > close(p1)

three_white_soldiers_of(c, p1, p2) ==
    is_bullish(p2) /\ is_bullish(p1) /\ open(p1) > close(p2) /\ close(p1) > close(p2)
        /\ is_bullish(c) /\ open(c) > close(p1) /\ close(c) > close(p1)

is_three_white_soldiers == zip3 /\ three_white_soldiers_of(get.val, prev(1).val, prev(2).val)

three_black_crows_of(c, p1, p2) ==
    is_bearish(p2) /\ is_bearish(p1) /\ open(p1) < close(p2) /\ close(p1) < close(p2)
        /\ is_bearish(c) /\ open(c) < close(p1) /\ close(c) < close(p1)

is_three_black_crows == zip3 /\ three_black_crows_of(get.val, prev(1).val, prev(2).val)

\* Mutant: the middle bar's close not held below the first bar's open.
three_inside_up_p1_unbounded(c, p1, p2) ==
    is_bearish(p2) /\ is_bullish(p1) /\ open(p1) > close(p2)
        /\ is_bullish(c) /\ close(c) > close(p1) /\ ~is_doji(c)

\* Mutant: a doji accepted as the confirming bar.
three_inside_up_doji_allowed(c, p1, p2) ==
    is_bearish(p2) /\ is_bullish(p1) /\ open(p1) > close(p2) /\ close(p1) < open(p2)
        /\ is_bullish(c) /\ close(c) > close(p1)

three_inside_up_of(c, p1, p2) ==
    is_bearish(p2) /\ is_bullish(p1) /\ open(p1) > close(p2) /\ close(p1) < open(p2)
        /\ is_bullish(c) /\ close(c) > close(p1) /\ ~is_doji(c)

is_three_inside_up == zip3 /\ three_inside_up_of(get.val, prev(1).val, prev(2).val)

three_inside_down_of(c, p1, p2) ==
    is_bullish(p2) /\ is_bearish(p1) /\ open(p1) < close(p2) /\ close(p1) > open(p2)
        /\ is_bearish(c) /\ close(c) < close(p1) /\ ~is_doji(c)

is_three_inside_down == zip3 /\ three_inside_down_of(get.val, prev(1).val, prev(2).val)

TwoBarQueries ==
    {"is_bullish_doji_star", "is_bearish_doji_star", "is_bullish_engulfing",
     "is_bearish_engulfing", "is_bullish_harami", "is_bearish_harami",
     "is_dark_cloud_cover"}

ThreeBarQueries ==
    {"is_evening_star", "is_evening_star_doji", "is_morning_star",
     "is_morning_star_doji", "is_three_white_soldiers", "is_three_black_crows",
     "is_three_inside_up", "is_three_inside_down"}

Queries == TwoBarQueries \cup ThreeBarQueries

\* The value the public query named q returns in the current state.
Answer(q) ==
    CASE q = "is_bullish_doji_star" -> is_bullish_doji_star
      [] q = "is_bearish_doji_star" -> is_bearish_doji_star
      [] q = "is_bullish_engulfing" -> is_bullish_engulfing
      [] q = "is_bearish_engulfing" -> is_bearish_engulfing
      [] q = "is_bullish_harami" -> is_bullish_harami
      [] q = "is_bearish_harami" -> is_bearish_harami
      [] q = "is_dark_cloud_cover" -> is_dark_cloud_cover
      [] q = "is_evening_star" -> is_evening_star
      [] q = "is_evening_star_doji" -> is_evening_star_doji
      [] q = "is_morning_star" -> is_morning_star
      [] q = "is_morning_star_doji" -> is_morning_star_doji
      [] q = "is_three_white_soldiers" -> is_three_white_soldiers
      [] q = "is_three_black_crows" -> is_three_black_crows
      [] q = "is_three_inside_up" -> is_three_inside_up
      [] q = "is_three_inside_down" -> is_three_inside_down

(***************************************************************************)
(* The reference window of the design: a ring with an explicit count of the *)
(* pushes, resolved by the four steps of "resolve(k)".                      *)
(***************************************************************************)
RefNew == [slots |-> [i \in Slots |-> None], cursor |-> 0, total |-> 0]

RefPush(w, b) ==
    [slots |-> [w.slots EXCEPT ![w.cursor % SERIES_SIZE] = Some(b)],
     cursor |-> (w.cursor + 1) % SERIES_SIZE,
     total |-> w.total + 1]

RefResolve(w, k) ==
    IF k >= SERIES_SIZE THEN None
    ELSE IF w.total < k + 1 THEN None
    ELSE w.slots[(w.cursor + 2 * SERIES_SIZE - 1 - k) % SERIES_SIZE]

(***************************************************************************)
(* State and operations                                                     *)
(*   series, idx      the fields of CandleStream                            *)
(*   hist             history: the bars pushed so far, oldest first         *)
(*   ref              history: the reference window, pushed the same bars   *)
(*   last             the last call, its argument and what it returned      *)
(***************************************************************************)
SelfRef == [tag |-> "Self"]

Bool(v) == [tag |-> "Bool", val |-> v]

pushed == Len(hist)

\* Mutant: the cursor starts at slot 1.
Init_cursor_one ==
    /\ series = [i \in Slots |-> None]
    /\ idx = 1
    /\ hist = <<>>
    /\ ref = RefNew
    /\ last = [op |-> "new", arg |-> <<>>, ret |-> SelfRef]

\* Mutant: the slots start out holding a placeholder bar.
Init_placeholder ==
    /\ series = [i \in Slots |-> Some(Bar(0, 0, 0, 0))]
    /\ idx = 0
    /\ hist = <<>>
    /\ ref = RefNew
    /\ last = [op |-> "new", arg |-> <<>>, ret |-> SelfRef]

\* CandleStream::new()
Init ==
    /\ series = [i \in Slots |-> None]
    /\ idx = 0
    /\ hist = <<>>
    /\ ref = RefNew
    /\ last = [op |-> "new", arg |-> <<>>, ret |-> SelfRef]

\* Mutant: the cursor advanced by two.
Push_skips_slot(b) ==
    /\ series' = [series EXCEPT ![idx % SERIES_SIZE] = Some(b)]
    /\ idx' = (idx + 2) % SERIES_SIZE
    /\ hist' = Append(hist, b)
    /\ ref' = RefPush(ref, b)
    /\ last' = [op |-> "push", arg |-> b, ret |-> SelfRef]

\* Mutant: the slot after the written one emptied.
Push_clears_next(b) ==
    /\ series' = [series EXCEPT ![idx % SERIES_SIZE] = Some(b),
                                ![(idx + 1) % SERIES_SIZE] = None]
    /\ idx' = (idx + 1) % SERIES_SIZE
    /\ hist' = Append(hist, b)
    /\ ref' = RefPush(ref, b)
    /\ last' = [op |-> "push", arg |-> b, ret |-> SelfRef]

\* Mutant: the bar stored one slot past the cursor.
Push_wrong_slot(b) ==
    /\ series' = [series EXCEPT ![(idx + 1) % SERIES_SIZE] = Some(b)]
    /\ idx' = (idx + 1) % SERIES_SIZE
    /\ hist' = Append(hist, b)
    /\ ref' = RefPush(ref, b)
    /\ last' = [op |-> "push", arg |-> b, ret |-> SelfRef]

\* Mutant: the cursor advanced without the modulo.
Push_no_modulo(b) ==
    /\ series' = [series EXCEPT ![idx % SERIES_SIZE] = Some(b)]
    /\ idx' = idx + 1
    /\ hist' = Append(hist, b)
    /\ ref' = RefPush(ref, b)
    /\ last' = [op |-> "push", arg |-> b, ret |-> SelfRef]

Push(b) ==
    /\ series' = [series EXCEPT ![idx % SERIES_SIZE] = Some(b)]
    /\ idx' = (idx + 1) % SERIES_SIZE
    /\ hist' = Append(hist, b)
    /\ ref' = RefPush(ref, b)
    /\ last' = [op |-> "push", arg |-> b, ret |-> SelfRef]

Get ==
    /\ last' = [op |-> "get", arg |-> <<>>, ret |-> get]
    /\ UNCHANGED <<series, idx, hist, ref>>

Prev(n) ==
    /\ \E r \in Outcomes(prev(n)) : last' = [op |-> "prev", arg |-> n, ret |-> r]
    /\ UNCHANGED <<series, idx, hist, ref>>

\* Mutant: a query that consumes the bar it reads by moving the cursor back.
Query_moves_cursor(q) ==
    /\ last' = [op |-> "query", arg |-> q, ret |-> Bool(Answer(q))]
    /\ idx' = (idx + SERIES_SIZE - 1) % SERIES_SIZE
    /\ UNCHANGED <<series, hist, ref>>

Query(q) ==
    /\ last' = [op |-> "query", arg |-> q, ret |-> Bool(Answer(q))]
    /\ UNCHANGED <<series, idx, hist, ref>>

\* The arguments of prev explored: 0 .. SERIES_SIZE + ExtraArgs and the two
\* largest values of usize.
PrevArgs == (0 .. SERIES_SIZE + ExtraArgs) \cup {USIZE_MAX - 1, USIZE_MAX}

PushOffered == \E b \in Offered : pushed < MaxPushes /\ Push(b)

PrevAny == \E n \in PrevArgs : Prev(n)

QueryAny == \E q \in Queries : Query(q)

Next == PushOffered \/ Get \/ PrevAny \/ QueryAny

Spec == Init /\ [][Next]_vars

\* SpecPat: sequences of up to PATTERN_BARS bars of the pattern grid and the
\* documented examples, pushed on a new stream or on one that first received
\* WARM_PUSHES candles, so that the bars the queries read lie across the
\* wraparound of the ring (slots 4, 0 and 1).  The queries take &self and are
\* read in each state as the operators is_..., Answer(q).
WARM_PUSHES == SERIES_SIZE - 1

\* No warm-up candle was pushed (no bar of PatBars is a Candle).
Fresh == IF pushed = 0 THEN TRUE ELSE hist[1] # Candle(1)

\* Every warm-up candle was pushed.
WarmedUp == IF pushed < WARM_PUSHES THEN FALSE ELSE hist[WARM_PUSHES] = Candle(WARM_PUSHES)

PushWarm ==
    /\ pushed < WARM_PUSHES
    /\ IF pushed = 0 THEN TRUE ELSE hist[pushed] = Candle(pushed)
    /\ Push(Candle(pushed + 1))

\* The bars that are followed by two more.  Of the bar two before the current
\* one the queries read the open and the close only, which the bars with the
\* long upper shadow cover; on a new stream the documented examples are
\* completed and the grid's triples are left to the wrapped stream.
Openers == IF Fresh THEN DocBars ELSE WickBars

PushPat ==
    /\ IF Fresh THEN pushed < PATTERN_BARS
       ELSE WarmedUp /\ pushed < WARM_PUSHES + PATTERN_BARS
    /\ IF pushed = (IF Fresh THEN 0 ELSE WARM_PUSHES) + PATTERN_BARS - 1
       THEN hist[pushed - 1] \in Openers
       ELSE TRUE
    /\ \E b \in PatBars : Push(b)

NextPat == PushWarm \/ PushPat

SpecPat == Init /\ [][NextPat]_vars

\* SpecRun: as SpecPat, with the bars of the trend grid.
PushRun ==
    /\ IF Fresh THEN pushed < PATTERN_BARS
       ELSE WarmedUp /\ pushed < WARM_PUSHES + PATTERN_BARS
    /\ \E b \in RunBars : Push(b)

NextRun == PushWarm \/ PushRun

SpecRun == Init /\ [][NextRun]_vars

(***************************************************************************)
(* Properties                                                               *)
(***************************************************************************)
\* The bar pushed k pushes before the most recent one, from the history;
\* unavailable past the capacity and past the first push.
BarsAgo(k) == IF k < SERIES_SIZE /\ k < pushed THEN Some(hist[pushed - k]) ELSE None

\* The lookup "k bars ago": get() for k = 0, prev(k) for k >= 1.
Lookup(k) == IF k = 0 THEN get ELSE prev(k)

\* What any lookup can return: get(), and prev(n) for every argument explored.
Returned == {get} \cup UNION {Outcomes(prev(n)) : n \in PrevArgs}

Distinct(h) == \A i, j \in 1 .. Len(h) : i # j => h[i] # h[j]

\* C1: after m >= 1 pushes, for every k with 0 <= k < min(m, 5) the lookup
\* "k bars ago" returns the (m - k)-th pushed bar, and get() returns the bar of
\* the most recent push, whatever the number of wraparounds.
C1_KBarsAgoResolves ==
    pushed >= 1 =>
        /\ \A k \in 0 .. Min(pushed, SERIES_SIZE) - 1 : Lookup(k) = Some(hist[pushed - k])
        /\ get = Some(hist[pushed])

\* C1 witness: after two wraparounds prev(4) is the bar pushed four pushes ago,
\* which differs from the current one.
C1_Witness ==
    /\ pushed > 2 * SERIES_SIZE
    /\ prev(4) = Some(hist[pushed - 4])
    /\ get = Some(hist[pushed])
    /\ hist[pushed - 4] # hist[pushed]

\* C2: after m < 5 pushes every lookup "k bars ago" with m <= k <= 4 is None; on
\* a new stream get() and prev(n) are None; after one push get() is that bar and
\* prev(1) is None; a lookup that returns a bar reads a slot that was written.
C2_UnwrittenIsNone ==
    /\ pushed < SERIES_SIZE => \A k \in pushed .. SERIES_SIZE - 1 : Lookup(k) = None
    /\ pushed = 0 => get = None /\ \A n \in PrevArgs \ {USIZE_MAX} : prev(n) = None
    /\ pushed = 1 => get = Some(hist[1]) /\ prev(1) = None
    /\ \A k \in Slots : is_some(Lookup(k)) => k < pushed

\* C2 witness: one bar pushed; it is current and nothing is before it.
C2_Witness == pushed = 1 /\ get = Some(hist[1]) /\ prev(1) = None /\ prev(4) = None

\* C3 (as claimed): prev(k) is None for every usize k >= 5, in every state.
C3_PrevPastCapacityIsNone ==
    \A n \in PrevArgs : n >= SERIES_SIZE => Outcomes(prev(n)) = {None}

\* C4 (as claimed): prev(n) is the bar n + 1 positions before the current one,
\* so that prev(0) is the bar immediately before it.
C4_PrevIsOneFurther ==
    /\ get = BarsAgo(0)
    /\ \A n \in Slots : prev(n) = BarsAgo(n + 1)

\* C4 (amended): prev(n) is the bar n positions before the most recently pushed
\* one, for n in 0 .. 4: prev(0) is the current bar, the same as get(), and
\* prev(1) is the bar immediately before it.
C4_PrevIsNBarsAgo ==
    /\ get = BarsAgo(0)
    /\ prev(0) = get
    /\ \A n \in Slots : prev(n) = BarsAgo(n)

\* C4 witness: two different bars were pushed last; prev(0) is the later one and
\* prev(1) the earlier.
C4_Witness ==
    /\ pushed >= 2
    /\ hist[pushed] # hist[pushed - 1]
    /\ prev(0) = Some(hist[pushed])
    /\ prev(1) = Some(hist[pushed - 1])

\* C5: after m > 5 pushes of pairwise distinct bars no lookup returns a bar
\* pushed at a position <= m - 5, and prev(4) is the (m - 4)-th pushed bar; after
\* exactly 6 pushes prev(4) is the 2nd pushed bar, not the 1st.
C5_KeepsFiveMostRecent ==
    (pushed > SERIES_SIZE /\ Distinct(hist)) =>
        /\ \A r \in Returned :
               is_some(r) => \A j \in 1 .. pushed - SERIES_SIZE : r.val # hist[j]
        /\ prev(4) = Some(hist[pushed - 4])
        /\ pushed = SERIES_SIZE + 1 => prev(4) = Some(hist[2]) /\ prev(4) # Some(hist[1])

\* C5 witness: six pairwise distinct bars pushed; the first is gone.
C5_Witness ==
    /\ pushed = SERIES_SIZE + 1
    /\ Distinct(hist)
    /\ prev(4) = Some(hist[2])
    /\ Some(hist[1]) \notin Returned

\* C6: with fewer than 2 pushes every two-bar query is false and with fewer than
\* 3 pushes every three-bar query is false, whatever the bars pushed; no query
\* fails.
C6_InsufficientHistoryIsFalse ==
    /\ \A q \in Queries : Answer(q) \in BOOLEAN
    /\ pushed = 0 => \A q \in Queries : Answer(q) = FALSE
    /\ pushed < 2 => \A q \in TwoBarQueries : Answer(q) = FALSE
    /\ pushed < 3 => \A q \in ThreeBarQueries : Answer(q) = FALSE

\* C6 witness: two bars pushed that form a Bullish Engulfing; the two-bar query
\* answers true and every three-bar query, lacking a third bar, false.
C6_Witness ==
    /\ pushed = 2
    /\ is_bullish_engulfing
    /\ \A q \in ThreeBarQueries : Answer(q) = FALSE

\* C7: a lookup or a pattern query leaves all five slots and the cursor
\* unchanged: only push changes them; a query returns the answer the state it is
\* called in gives, and the same query called again with no push in between
\* returns the same result.
C7_QueriesReadOnly ==
    /\ [](last.op = "query" => last.ret = Bool(Answer(last.arg)))
    /\ [][/\ last'.op \in {"get", "prev", "query"} => series' = series /\ idx' = idx
          /\ (series' # series \/ idx' # idx) => last'.op = "push" /\ pushed' = pushed + 1
          /\ (last.op = "query" /\ last'.op = "query" /\ last'.arg = last.arg)
                 => last'.ret = last.ret]_vars

\* C7 witness: a query has just answered true on a stream that has wrapped.
C7_Witness ==
    /\ pushed > SERIES_SIZE
    /\ last = [op |-> "query", arg |-> "is_three_white_soldiers", ret |-> Bool(TRUE)]

\* C8: push is enabled in every state; it stores the bar in slot idx, sets idx to
\* (idx + 1) mod 5 and leaves the other four slots unchanged; from the fifth push
\* on the slot it overwrites holds the oldest retained bar, the one prev(4)
\* returned before the push.
C8_PushEffect ==
    /\ [](\A b \in Offered : ENABLED Push(b))
    /\ [][pushed' = pushed + 1 =>
            /\ series'[idx] = Some(hist'[pushed'])
            /\ idx' = (idx + 1) % SERIES_SIZE
            /\ \A i \in Slots \ {idx} : series'[i] = series[i]
            /\ pushed >= SERIES_SIZE =>
                   series[idx] = Some(hist[pushed - 4]) /\ prev(4) = series[idx]]_vars

\* C8 witness: the sixth or a later push has just overwritten the oldest bar; the
\* new bar is current and the cursor is past its slot.
C8_Witness ==
    /\ pushed > SERIES_SIZE
    /\ last.op = "push"
    /\ series[(idx + SERIES_SIZE - 1) % SERIES_SIZE] = Some(hist[pushed])
    /\ hist[pushed] # hist[pushed - SERIES_SIZE]

\* C9: the stream, which keeps no count of the pushes, returns for get() and for
\* prev(k), k in 1 .. 4, what the reference window that counts them resolves.
C9_MatchesCountingWindow == \A k \in Slots : Lookup(k) = RefResolve(ref, k)

\* C9 witness: three bars pushed; both windows give the first bar for k = 2 and
\* nothing for k = 3, which the reference decides by its count.
C9_Witness ==
    /\ pushed = 3
    /\ ref.total = 3
    /\ Lookup(2) = Some(hist[1]) /\ RefResolve(ref, 2) = Some(hist[1])
    /\ Lookup(3) = None /\ RefResolve(ref, 3) = None

\* C10: after >= 2 pushes, with cur the last pushed bar and p the one before it,
\* is_bullish_engulfing is true iff p.open > p.close, cur.open < cur.close,
\* cur.open < p.close and cur.close > p.open, and is_bearish_engulfing is true
\* iff p.open < p.close, cur.open > cur.close, cur.open > p.close and
\* cur.close < p.open; the documented pair of bars gives Bullish Engulfing.
C10_EngulfingIff ==
    pushed >= 2 =>
        LET cur == hist[pushed]
            p == hist[pushed - 1]
        IN /\ is_bullish_engulfing <=>
                (p.open > p.close /\ cur.open < cur.close
                    /\ cur.open < p.close /\ cur.close > p.open)
           /\ is_bearish_engulfing <=>
                (p.open < p.close /\ cur.open > cur.close
                    /\ cur.open > p.close /\ cur.close < p.open)
           /\ (p = DocEngulfPrev /\ cur = DocEngulfCur) => is_bullish_engulfing

\* C10 witness: the documented pair pushed on a new stream.
C10_Witness ==
    /\ hist = <<DocEngulfPrev, DocEngulfCur>>
    /\ is_bullish_engulfing
    /\ ~is_bearish_engulfing

\* The bar pushed k pushes before the most recent one (k = 0: the current bar).
LastBar(k) == hist[pushed - k]

BodyLow(b) == Min(b.open, b.close)

BodyHigh(b) == Max(b.open, b.close)

\* C11: whenever is_bullish_harami or is_bearish_harami is true the two last
\* bars have opposite direction and the current bar's body lies strictly inside
\* the previous bar's body; whenever is_bullish_engulfing or
\* is_bearish_engulfing is true the current bar's body strictly contains the
\* previous bar's body.
C11_HaramiInsideEngulfingOutside ==
    pushed >= 2 =>
        LET cur == LastBar(0)
            p == LastBar(1)
        IN /\ (is_bullish_harami \/ is_bearish_harami) =>
                /\ BodyLow(p) < BodyLow(cur)
                /\ BodyHigh(cur) < BodyHigh(p)
                /\ \/ p.open > p.close /\ cur.open < cur.close
                   \/ p.open < p.close /\ cur.open > cur.close
           /\ (is_bullish_engulfing \/ is_bearish_engulfing) =>
                /\ BodyLow(cur) < BodyLow(p)
                /\ BodyHigh(p) < BodyHigh(cur)

\* C11 witness: on a stream that has wrapped, a Bullish Harami whose bullish
\* body lies strictly inside the bearish body before it.
C11_Witness ==
    /\ pushed > SERIES_SIZE
    /\ is_bullish_harami
    /\ BodyLow(LastBar(1)) < BodyLow(LastBar(0))
    /\ BodyHigh(LastBar(0)) < BodyHigh(LastBar(1))

\* C12: after >= 2 pushes is_dark_cloud_cover is true iff cur is bearish, prev
\* is bullish, cur.open > prev.close and cur.close < (prev.open + prev.close) / 2,
\* all strict; the documented pair gives true and a current bar that closes
\* exactly at the midpoint gives false.
C12_DarkCloudCoverIff ==
    pushed >= 2 =>
        LET cur == LastBar(0)
            p == LastBar(1)
        IN /\ is_dark_cloud_cover <=>
                (cur.open > cur.close /\ p.open < p.close /\ cur.open > p.close
                    /\ 2 * cur.close < p.open + p.close)
           /\ (p = DocDarkCloudPrev /\ cur = DocDarkCloudCur) => is_dark_cloud_cover
           /\ 2 * cur.close = p.open + p.close => ~is_dark_cloud_cover

\* C12 witness: the documented pair pushed on a new stream; the midpoint of the
\* first bar is 102.25.
C12_Witness ==
    /\ hist = <<DocDarkCloudPrev, DocDarkCloudCur>>
    /\ midpoint(DocDarkCloudPrev.open, DocDarkCloudPrev.close) = 1022500
    /\ is_dark_cloud_cover

\* C13: after >= 3 pushes, with p2, p1, cur the last three bars in push order,
\* is_morning_star is true iff p2 is bearish, p1 is a doji or p1.open < p1.close,
\* cur is bullish and cur.close > (p2.open + p2.close) / 2; is_evening_star is the
\* mirror image with the same test of the middle bar; the _doji variants require
\* p1 to be a doji; a bearish middle bar that is not a doji gives no star; the
\* documented three bars give Morning Star.
C13_StarsIff ==
    pushed >= 3 =>
        LET cur == LastBar(0)
            p1 == LastBar(1)
            p2 == LastBar(2)
            middle == is_doji(p1) \/ p1.open < p1.close
            above == 2 * cur.close > p2.open + p2.close
            below == 2 * cur.close < p2.open + p2.close
            ms == is_morning_star
            es == is_evening_star
            msd == is_morning_star_doji
            esd == is_evening_star_doji
        IN /\ ms <=> (p2.open > p2.close /\ middle /\ cur.open < cur.close /\ above)
           /\ es <=> (p2.open < p2.close /\ middle /\ cur.open > cur.close /\ below)
           /\ msd <=> (p2.open > p2.close /\ is_doji(p1) /\ cur.open < cur.close /\ above)
           /\ esd <=> (p2.open < p2.close /\ is_doji(p1) /\ cur.open > cur.close /\ below)
           /\ (p1.open > p1.close /\ ~is_doji(p1)) => ~ms /\ ~es /\ ~msd /\ ~esd
           /\ (p2 = DocMorningStarP2 /\ p1 = DocMorningStarP1 /\ cur = DocMorningStarCur)
                => ms

\* C13 witness: the documented three bars pushed on a new stream.
C13_Witness ==
    /\ hist = <<DocMorningStarP2, DocMorningStarP1, DocMorningStarCur>>
    /\ is_morning_star

\* C14: after >= 3 pushes is_three_inside_up is true iff p2 is bearish, p1 is
\* bullish, p1.open > p2.close, p1.close < p2.open, cur is bullish,
\* cur.close > p1.close and cur is not a doji, and is_three_inside_down is the
\* mirror image; cur.open is free; the query is false when p1 engulfs p2, when
\* p1 or p2 has open = close, when cur closes inside p1's body and when cur is a
\* doji.
C14_ThreeInsideIff ==
    pushed >= 3 =>
        LET cur == LastBar(0)
            p1 == LastBar(1)
            p2 == LastBar(2)
            up == is_three_inside_up
            down == is_three_inside_down
        IN /\ up <=>
                (p2.open > p2.close /\ p1.open < p1.close
                    /\ p1.open > p2.close /\ p1.close < p2.open
                    /\ cur.open < cur.close /\ cur.close > p1.close /\ ~is_doji(cur))
           /\ down <=>
                (p2.open < p2.close /\ p1.open > p1.close
                    /\ p1.open < p2.close /\ p1.close > p2.open
                    /\ cur.open > cur.close /\ cur.close < p1.close /\ ~is_doji(cur))
           /\ (p1.open < p2.close /\ p1.close > p2.open) => ~up
           /\ (p1.open = p1.close \/ p2.open = p2.close) => ~up
           /\ (BodyLow(p1) <= cur.close /\ cur.close <= BodyHigh(p1)) => ~up
           /\ is_doji(cur) => ~up /\ ~down

\* C14 witness: a Three Inside Up whose confirming bar engulfs the middle bar.
C14_Witness ==
    /\ pushed >= 3
    /\ is_three_inside_up
    /\ LastBar(0).open < LastBar(1).open
    /\ LastBar(0).close > LastBar(1).close

C16_OpensWithinPreviousBody ==
    pushed >= 3 =>
        LET cur == LastBar(0)
            p1 == LastBar(1)
            p2 == LastBar(2)
        IN /\ is_three_white_soldiers =>
                /\ p2.open <= p1.open /\ p1.open <= p2.close
                /\ p1.open <= cur.open /\ cur.open <= p1.close
                /\ p1.close > p2.close /\ cur.close > p1.close
           /\ is_three_black_crows =>
                /\ p2.close <= p1.open /\ p1.open <= p2.open
                /\ p1.close <= cur.open /\ cur.open <= p1.open
                /\ p1.close < p2.close /\ cur.close < p1.close

\* C17: after >= 2 pushes is_bullish_doji_star is true iff prev is bearish, cur
\* is a doji and cur.high < prev.low; is_bearish_doji_star is true iff prev is
\* bullish, cur is a doji and cur.low > prev.high.
C17_DojiStarIff ==
    pushed >= 2 =>
        LET cur == LastBar(0)
            p == LastBar(1)
        IN /\ is_bullish_doji_star <=>
                (p.open > p.close /\ is_doji(cur) /\ cur.high < p.low)
           /\ is_bearish_doji_star <=>
                (p.open < p.close /\ is_doji(cur) /\ cur.low > p.high)
           /\ cur.high >= p.low => ~is_bullish_doji_star
           /\ cur.low <= p.high => ~is_bearish_doji_star

\* C17 witness: on a stream that has wrapped, a doji whose high is below the low
\* of the bearish bar before it.
C17_Witness ==
    /\ pushed > SERIES_SIZE
    /\ is_bullish_doji_star
    /\ is_doji(LastBar(0))
    /\ LastBar(0).high < LastBar(1).low

Flat(b) == b.open = b.close

\* The queries that require the current bar to be bullish or bearish: all but
\* the doji stars.
DirectionalInCur == Queries \ {"is_bullish_doji_star", "is_bearish_doji_star"}

\* The queries that require the bar before the current one to be bullish or
\* bearish: all but the stars, whose middle bar may be a doji.
DirectionalInP1 ==
    Queries \ {"is_evening_star", "is_evening_star_doji", "is_morning_star",
               "is_morning_star_doji"}

\* The answers of all the queries in the current state.
Answers == [q \in Queries |-> Answer(q)]

NoneOf(qs) == \A q \in qs : ~Answer(q)

\* C18: equal values never satisfy a directional condition.  A bar with
\* open = close is neither bullish nor bearish and every query that requires it
\* to be one or the other is false; every query is false when one of its price
\* comparisons holds only with equality.
C18_EqualityNeverMatches ==
    LET ans == Answers
        None_(qs) == \A q \in qs : ~ans[q]
    IN
    /\ \A k \in 0 .. Min(pushed, SERIES_SIZE) - 1 :
           Flat(LastBar(k)) => ~is_bullish(LastBar(k)) /\ ~is_bearish(LastBar(k))
    /\ pushed >= 2 =>
           LET cur == LastBar(0)
               p == LastBar(1)
           IN /\ Flat(cur) => None_(DirectionalInCur)
              /\ Flat(p) => None_(DirectionalInP1)
              /\ cur.open = p.close =>
                     None_({"is_bullish_engulfing", "is_bearish_engulfing",
                            "is_bullish_harami", "is_bearish_harami",
                            "is_dark_cloud_cover", "is_three_white_soldiers",
                            "is_three_black_crows"})
              /\ cur.close = p.open =>
                     None_({"is_bullish_engulfing", "is_bearish_engulfing",
                            "is_bullish_harami", "is_bearish_harami"})
              /\ cur.high = p.low => ~ans["is_bullish_doji_star"]
              /\ cur.low = p.high => ~ans["is_bearish_doji_star"]
              /\ 2 * cur.close = p.open + p.close => ~ans["is_dark_cloud_cover"]
              /\ cur.close = p.close =>
                     None_({"is_three_inside_up", "is_three_inside_down",
                            "is_three_white_soldiers", "is_three_black_crows"})
    /\ pushed >= 3 =>
           LET cur == LastBar(0)
               p1 == LastBar(1)
               p2 == LastBar(2)
           IN /\ Flat(p2) => None_(ThreeBarQueries)
              /\ 2 * cur.close = p2.open + p2.close =>
                     None_({"is_evening_star", "is_evening_star_doji",
                            "is_morning_star", "is_morning_star_doji"})
              /\ (p1.open = p2.close \/ p1.close = p2.open) =>
                     None_({"is_three_inside_up", "is_three_inside_down"})
              /\ (p1.open = p2.close \/ p1.close = p2.close) =>
                     None_({"is_three_white_soldiers", "is_three_black_crows"})

\* C18 witness: a bearish bar that opens above and closes below a flat bar; but
\* for the flat bar's direction it would be a Bearish Engulfing, and no query
\* matches.
C18_Witness ==
    /\ pushed >= 2
    /\ Flat(LastBar(1))
    /\ LastBar(0).open > LastBar(1).close
    /\ LastBar(0).close < LastBar(1).open
    /\ ~is_bearish_engulfing
    /\ NoneOf(DirectionalInP1)

\* The closure of the two-bar query q on a current and a previous bar.
Verdict2(q, c, p) ==
    CASE q = "is_bullish_doji_star" -> bullish_doji_star_of(c, p)
      [] q = "is_bearish_doji_star" -> bearish_doji_star_of(c, p)
      [] q = "is_bullish_engulfing" -> bullish_engulfing_of(c, p)
      [] q = "is_bearish_engulfing" -> bearish_engulfing_of(c, p)
      [] q = "is_bullish_harami" -> bullish_harami_of(c, p)
      [] q = "is_bearish_harami" -> bearish_harami_of(c, p)
      [] q = "is_dark_cloud_cover" -> dark_cloud_cover_of(c, p)

\* The closure of the three-bar query q on a current bar and the two before it.
Verdict3(q, c, p1, p2) ==
    CASE q = "is_evening_star" -> evening_star_of(c, p1, p2)
      [] q = "is_evening_star_doji" -> evening_star_doji_of(c, p1, p2)
      [] q = "is_morning_star" -> morning_star_of(c, p1, p2)
      [] q = "is_morning_star_doji" -> morning_star_doji_of(c, p1, p2)
      [] q = "is_three_white_soldiers" -> three_white_soldiers_of(c, p1, p2)
      [] q = "is_three_black_crows" -> three_black_crows_of(c, p1, p2)
      [] q = "is_three_inside_up" -> three_inside_up_of(c, p1, p2)
      [] q = "is_three_inside_down" -> three_inside_down_of(c, p1, p2)

\* C19: the result of a two-bar query is a function of the last 2 pushed bars
\* and the result of a three-bar query a function of the last 3, in every state
\* reached: whatever the number of pushes, of wraparounds and the older bars, two
\* windows whose last 2 (3) pushed bars are equal answer alike.
C19_DependsOnlyOnLastBars ==
    /\ pushed >= 2 =>
           \A q \in TwoBarQueries : Answer(q) = Verdict2(q, LastBar(0), LastBar(1))
    /\ pushed >= 3 =>
           \A q \in ThreeBarQueries :
               Answer(q) = Verdict3(q, LastBar(0), LastBar(1), LastBar(2))

\* C19 witness: the two documented Bullish Engulfing bars are the last of seven
\* pushed, after a wraparound and after other bars, and give the result they
\* give as the only two bars of a new stream.
C19_Witness ==
    /\ pushed = WARM_PUSHES + PATTERN_BARS
    /\ LastBar(1) = DocEngulfPrev /\ LastBar(0) = DocEngulfCur
    /\ LastBar(2) # DocEngulfPrev
    /\ is_bullish_engulfing
    /\ NoneOf(ThreeBarQueries)

\* C20: push order matters.  The engulfing queries read the last two pushed
\* bars in push order, in every state; if Bullish Engulfing holds for A then B
\* its closure rejects B then A, likewise Bearish Engulfing; and pushing A again
\* after A then B, which makes B then A the last two bars, ends the match.
C20_PushOrderMatters ==
    /\ [](pushed >= 2 =>
            LET b == LastBar(0)
                a == LastBar(1)
            IN /\ is_bullish_engulfing = bullish_engulfing_of(b, a)
               /\ is_bearish_engulfing = bearish_engulfing_of(b, a)
               /\ is_bullish_engulfing => ~bullish_engulfing_of(a, b)
               /\ is_bearish_engulfing => ~bearish_engulfing_of(a, b))
    /\ [][(pushed >= 2 /\ pushed' = pushed + 1 /\ hist'[pushed'] = hist[pushed - 1]) =>
            /\ is_bullish_engulfing => ~is_bullish_engulfing'
            /\ is_bearish_engulfing => ~is_bearish_engulfing']_vars

\* C20 witness: the documented Bullish Engulfing pair pushed in the other
\* order: not a Bullish Engulfing but a Bearish Harami.
C20_Witness ==
    /\ hist = <<DocEngulfCur, DocEngulfPrev>>
    /\ bullish_engulfing_of(DocEngulfCur, DocEngulfPrev)
    /\ ~is_bullish_engulfing
    /\ is_bearish_harami

\* C21 (as claimed): every bar whose open equals its close is a doji, for every
\* high >= low, the flat bar with high = low included.
C21_EqualOpenCloseIsDoji ==
    pushed >= 1 =>
        LET b == get.val
        IN (Flat(b) /\ b.high >= b.low) => is_doji(b)

\* C22: whenever is_three_inside_up is true in the state after a push,
\* is_bullish_harami was true in the state before that push; whenever
\* is_three_inside_down is true after a push, is_bearish_harami was true before
\* it.
C22_ThreeInsideContinuesHarami ==
    [][pushed' = pushed + 1 =>
          /\ is_three_inside_up' => is_bullish_harami
          /\ is_three_inside_down' => is_bearish_harami]_vars

\* C22 witness: a push has just completed a Three Inside Up; the two bars before
\* the pushed one form a Bullish Harami.
C22_Witness ==
    /\ pushed >= 3
    /\ last.op = "push"
    /\ is_three_inside_up
    /\ bullish_harami_of(LastBar(1), LastBar(2))

\* C23: each push shifts the addressable history by one.  After the push of b,
\* get() is b, prev(1) is the get() of the state before, and prev(k + 1) is the
\* prev(k) of the state before for k in 1 .. 3, an unavailable one staying
\* unavailable; the bar prev(4) returned before the push is no longer returned
\* by any lookup (the bars pushed being pairwise distinct).
C23_PushShiftsHistory ==
    [][pushed' = pushed + 1 =>
          /\ get' = Some(last'.arg)
          /\ prev(1)' = get
          /\ \A k \in 1 .. SERIES_SIZE - 2 : prev(k + 1)' = prev(k)
          /\ \A k \in 1 .. SERIES_SIZE - 2 : ~is_some(prev(k)) => ~is_some(prev(k + 1)')
          /\ (is_some(prev(4)) /\ Distinct(hist')) => prev(4) \notin Returned']_vars

\* C23 witness: a push on a full window has just moved every bar one place back.
C23_Witness ==
    /\ pushed > SERIES_SIZE
    /\ last.op = "push"
    /\ Distinct(hist)
    /\ get = Some(last.arg)
    /\ prev(1) = Some(hist[pushed - 1])
    /\ prev(4) = Some(hist[pushed - 4])
    /\ Some(hist[pushed - SERIES_SIZE]) \notin Returned

\* C24: in every reachable state the cursor idx is in 0 .. 4 and equals the
\* number of pushes mod 5, and every slot that push, at, get or prev accesses is
\* within the array.
C24_CursorInBounds ==
    /\ idx \in Slots
    /\ idx = pushed % SERIES_SIZE
    /\ idx % SERIES_SIZE \in DOMAIN series
    /\ \A n \in 0 .. SERIES_SIZE + ExtraArgs :
           is_some(nth_index(n)) => nth_index(n).val \in DOMAIN series
    /\ \A i \in 0 .. SERIES_SIZE + ExtraArgs : is_some(at(i)) => i \in DOMAIN series

\* C24 witness: seven pushes, the cursor at slot 2 after one wraparound.
C24_Witness == pushed = SERIES_SIZE + 2 /\ idx = 2 /\ nth_index(1) = Some(1)

Occupied == {i \in Slots : is_some(series[i])}

\* C25: after m pushes exactly min(m, 5) slots are occupied; for m < 5 slots
\* 0 .. m - 1 hold the pushed bars in push order and slots m .. 4 are empty; a
\* slot once occupied never becomes empty again, and from the 5th push on all
\* slots are occupied.
C25_SlotOccupancy ==
    /\ [](/\ Cardinality(Occupied) = Min(pushed, SERIES_SIZE)
          /\ pushed < SERIES_SIZE =>
                \A i \in Slots :
                    series[i] = IF i < pushed THEN Some(hist[i + 1]) ELSE None
          /\ pushed >= SERIES_SIZE => Occupied = Slots)
    /\ [][\A i \in Slots : is_some(series[i]) => is_some(series'[i])]_vars

\* C25 witness: three pushes; slots 0 .. 2 hold the bars in push order and slots
\* 3 and 4 are empty.
C25_Witness ==
    /\ pushed = 3
    /\ Occupied = {0, 1, 2}
    /\ series[0] = Some(hist[1]) /\ series[2] = Some(hist[3])
    /\ series[3] = None /\ series[4] = None

\* C26: in every reachable state at most one of is_bullish_engulfing,
\* is_bearish_engulfing, is_bullish_harami and is_bearish_harami is true.
C26_EngulfingHaramiExclusive ==
    LET be == is_bullish_engulfing
        se == is_bearish_engulfing
        bh == is_bullish_harami
        sh == is_bearish_harami
    IN /\ ~(be /\ se) /\ ~(be /\ bh) /\ ~(be /\ sh)
       /\ ~(se /\ bh) /\ ~(se /\ sh) /\ ~(bh /\ sh)

\* C26 witness: a Bearish Harami on a stream that has wrapped: its comparisons
\* of opens and closes are those of Bullish Engulfing, which is false as are
\* the other two.
C26_Witness ==
    /\ pushed > SERIES_SIZE
    /\ is_bearish_harami
    /\ LastBar(0).open < LastBar(1).close /\ LastBar(0).close > LastBar(1).open
    /\ ~is_bullish_engulfing /\ ~is_bearish_engulfing /\ ~is_bullish_harami

\* C27: a bullish pattern and its bearish counterpart are never both true:
\* bullish and bearish doji star, morning and evening star, morning and evening
\* star doji, three white soldiers and three black crows, three inside up and
\* three inside down.
C27_CounterpartsExclusive ==
    /\ ~(is_bullish_doji_star /\ is_bearish_doji_star)
    /\ ~(is_morning_star /\ is_evening_star)
    /\ ~(is_morning_star_doji /\ is_evening_star_doji)
    /\ ~(is_three_white_soldiers /\ is_three_black_crows)
    /\ ~(is_three_inside_up /\ is_three_inside_down)

\* C27 witness: Three Black Crows without Three White Soldiers.
C27_Witness ==
    /\ pushed = PATTERN_BARS
    /\ is_three_black_crows
    /\ ~is_three_white_soldiers

\* C28: is_evening_star_doji implies is_evening_star and is_morning_star_doji
\* implies is_morning_star; the `&` of is_evening_star_doji has the truth value
\* of the plain conjunction.
C28_DojiVariantsImplyBase ==
    LET esd == is_evening_star_doji
        msd == is_morning_star_doji
    IN /\ esd => is_evening_star
       /\ msd => is_morning_star
       /\ pushed >= 3 =>
              LET cur == LastBar(0)
                  p1 == LastBar(1)
                  p2 == LastBar(2)
              IN esd <=> (is_bullish(p2) /\ is_doji(p1) /\ is_bearish(cur)
                            /\ 2 * cur.close < p2.open + p2.close)

\* C28 witness: an Evening Star Doji, which is an Evening Star, on a stream
\* that has wrapped.
C28_Witness ==
    /\ pushed > SERIES_SIZE
    /\ is_evening_star_doji
    /\ is_evening_star
    /\ is_doji(LastBar(1))

\* C29: none of is_bullish_engulfing, is_bearish_engulfing, is_bullish_harami,
\* is_bearish_harami and is_dark_cloud_cover is true both in the state before
\* and in the state after a push.
C29_NoReversalTwiceInARow ==
    [][pushed' = pushed + 1 =>
          /\ ~(is_bullish_engulfing /\ is_bullish_engulfing')
          /\ ~(is_bearish_engulfing /\ is_bearish_engulfing')
          /\ ~(is_bullish_harami /\ is_bullish_harami')
          /\ ~(is_bearish_harami /\ is_bearish_harami')
          /\ ~(is_dark_cloud_cover /\ is_dark_cloud_cover')]_vars

\* C29 witness: a push after a Bullish Engulfing: the bullish bar is now the
\* previous one, Bullish Engulfing is false and Bearish Harami is true.
C29_Witness ==
    /\ pushed >= 3
    /\ last.op = "push"
    /\ bullish_engulfing_of(LastBar(1), LastBar(2))
    /\ ~is_bullish_engulfing
    /\ is_bearish_harami

\* C30: nth_index(n) is None iff n > 5; for 0 <= n <= 5 it is (idx + 5 - n) mod 5,
\* a value in 0 .. 4, and idx + 5 - n is not negative; nth_index(0) and
\* nth_index(5) are idx, the next write position, and nth_index(1) is the slot
\* of the most recently pushed bar.
C30_NthIndex ==
    /\ \A n \in (0 .. SERIES_SIZE + ExtraArgs) \cup {USIZE_MAX} :
           /\ nth_index(n) = None <=> n > SERIES_SIZE
           /\ n <= SERIES_SIZE =>
                  /\ idx + SERIES_SIZE - n >= 0
                  /\ nth_index(n) = Some((idx + SERIES_SIZE - n) % SERIES_SIZE)
                  /\ nth_index(n).val \in Slots
    /\ nth_index(0) = Some(idx)
    /\ nth_index(SERIES_SIZE) = Some(idx)
    /\ pushed >= 1 => series[nth_index(1).val] = Some(hist[pushed])

\* C30 witness: five pushes; the cursor is back at slot 0, nth_index(0) and
\* nth_index(5) are 0 and nth_index(1) is slot 4, which holds the fifth bar.
C30_Witness ==
    /\ pushed = SERIES_SIZE
    /\ idx = 0
    /\ nth_index(0) = Some(0) /\ nth_index(SERIES_SIZE) = Some(0)
    /\ nth_index(1) = Some(4)
    /\ nth_index(SERIES_SIZE + 1) = None
    /\ series[4] = Some(hist[SERIES_SIZE])

====
